---- MODULE Spec2Model ----
(***************************************************************************)
(* Model of the avatar front end (src/frontend/perfume.js and the second   *)
(* build of the same script, src/unnamed/part_000).  Every async handler   *)
(* is cut at its awaits: one action per synchronous segment, so that the   *)
(* browser's task queue may interleave other handlers at every suspension  *)
(* point.  The variable `variant` says which of the two scripts runs.      *)
(***************************************************************************)
EXTENDS Integers, Sequences, FiniteSets, TLC

VARIABLES
  variant,        \* "frontend" (perfume.js) or "unnamed" (part_000)
  quota,          \* how many times the user triggers each control
  history,        \* whether each recorder remembers the fragments it delivered
  SESSION_ID, SESSION_TOKEN, OFFER_SDP, pc,   \* module-level session state
  conns,          \* every RTCPeerConnection created so far
  status,         \* #viewerStatus text
  placeholder,    \* #avatarPlaceholder display ("" shown, "none" hidden)
  gate,           \* #audioGate display
  editBox,        \* #editBox value, a sequence of characters
  net,            \* requests issued so far (without /api/log); n numbers the
                  \* requests of one handler invocation in the order issued
  logs,           \* flog calls made so far (debug line + /api/log request)
  starts,         \* startSession invocations
  stops,          \* stopSession invocations
  sends,          \* sendBtn click handler invocations
  chats,          \* gptBtn click handler invocations
  tiles,          \* perfumeGrid click handler / explainPerfume invocations
  mediaRecorder,  \* the module-level recorder handle: 0 (null) or a recorder
  chunks,         \* the module-level buffer of audio fragments
  recs,           \* every MediaRecorder created so far, with its onstop handler
  streams,        \* every microphone stream acquired so far
  micBtn,         \* the mic button shows its recording state
  micClicks,      \* clicks on the mic button so far
  mics,           \* startRecording invocations
  videoEl,        \* #avatarVideo: the connection whose stream it plays, muted
  audioEl,        \* #avatarAudio: the connection whose stream it plays, muted
  tracked,        \* track events delivered so far, as << connection, kind >>
  audios,         \* ensureAudio invocations
  gateClicks      \* clicks on the enable-audio button so far

vars == << variant, quota, history, SESSION_ID, SESSION_TOKEN, OFFER_SDP, pc, conns,
           status, placeholder, gate, editBox, net, logs,
           starts, stops, sends, chats, tiles,
           mediaRecorder, chunks, recs, streams, micBtn, micClicks, mics,
           videoEl, audioEl, tracked, audios, gateClicks >>

sessionVars == << SESSION_ID, SESSION_TOKEN, OFFER_SDP, pc, conns >>
inputVars   == << sends, chats, tiles >>
recVars     == << mediaRecorder, chunks, recs, streams, micBtn, micClicks, mics >>
mediaVars   == << videoEl, audioEl, tracked, audios, gateClicks >>

-----------------------------------------------------------------------------
(* Bounds of the model *)

\* start triggers in the session specification
MaxStarts == 2
\* stop triggers in the session specification
MaxStops == 1
\* triggers in the input specification: Direct send, instruction, chat and
\* tile triggers, and at most one start trigger among them
MaxInputs == 2
\* clicks on the mic button in the recorder specification
MaxMics == 3
\* triggers in the page specification: at most one start, one stop, one of
\* Direct send, instruction, chat and tile, and mic clicks
MaxAll == 2
\* clicks on the enable-audio button in the media specification
MaxGateClicks == 1
\* clicks on the mic button in the recorder specification with more clicks
MaxClicks == 4
\* fragments a recorder delivers while it records (part_000 records with a
\* 150 ms timeslice), not counting the one delivered when it stops
MaxFrags == 1

-----------------------------------------------------------------------------
(* Values *)

Null  == "null"
Undef == "undefined"

\* JavaScript truthiness of a session id / token / label held as a string
Truthy(v) == v \notin {Null, Undef, ""}

Variants == {"frontend", "unnamed"}

\* texts are sequences of characters; " " stands for any white space
Texts == { << >>, << " " >>, << " ", "a" >> }

\* String.prototype.trim
TrimNone(s) == s

RECURSIVE TrimLeft(_)
TrimLeft(s) == IF s # << >> /\ Head(s) = " " THEN TrimLeft(Tail(s)) ELSE s

RECURSIVE TrimRight(_)
TrimRight(s) ==
  IF s # << >> /\ s[Len(s)] = " " THEN TrimRight(SubSeq(s, 1, Len(s) - 1)) ELSE s

Trim(s) == TrimRight(TrimLeft(s))

\* a || b for strings: the empty string is falsy
OrElse(a, b) == IF a # << >> THEN a ELSE b

SessionActive == Truthy(SESSION_ID) /\ Truthy(SESSION_TOKEN)

\* an empty request record; every request has the same fields
Req(ep, by) ==
  [ep |-> ep, by |-> by, n |-> Cardinality({r \in net : r.by = by}) + 1,
   sid |-> "", tok |-> "", text |-> << >>, sdp |-> 0, blob |-> << >>]

\* one flog call: a line in the debug box and a POST to /api/log
Log(by, msg) == [by |-> by, msg |-> msg]

\* the ids the backend issues to the i-th start request
SidOf(i) == <<"s1", "s2", "s3", "s4">>[i]
TokOf(i) == <<"t1", "t2", "t3", "t4">>[i]

\* what /api/start-session can answer to the i-th request: a network failure
\* (http 0), or a status with a body (malformed JSON parses to {} through
\* r.json().catch, which is a body without any field)
StartResponses(i) ==
  { [http |-> 0,   offer |-> Undef, sid |-> Undef,    tok |-> Undef],
    [http |-> 200, offer |-> "sdp", sid |-> SidOf(i), tok |-> TokOf(i)],
    [http |-> 200, offer |-> "sdp", sid |-> Undef,    tok |-> TokOf(i)],
    [http |-> 200, offer |-> "sdp", sid |-> SidOf(i), tok |-> Undef],
    [http |-> 200, offer |-> Undef, sid |-> Undef,    tok |-> Undef],
    [http |-> 500, offer |-> "sdp", sid |-> SidOf(i), tok |-> TokOf(i)] }

NoResp == [http |-> 0, offer |-> Undef, sid |-> Undef, tok |-> Undef]

\* a fresh RTCPeerConnection
NewConn == [closed |-> FALSE, remote |-> FALSE, local |-> 0, ice |-> "new"]

\* a startSession invocation suspended at its first await
NewStart == [at |-> "log_pressed", resp |-> NoResp, opc |-> 0, ans |-> 0,
             mine |-> 0, res |-> FALSE, timer |-> "none", out |-> ""]

\* a startSession invocation that returned; its locals are gone
\* a startSession that starts over when start-session failed
DoneStartRetry(out) ==
  IF out = "abort" THEN NewStart ELSE [NewStart EXCEPT !.at = "done", !.out = out]

DoneStart(out) == [NewStart EXCEPT !.at = "done", !.out = out]

OpenConns == {c \in DOMAIN conns : ~conns[c].closed}

\* triggers of the input bridge so far, and all triggers so far
InputCount == Len(sends) + Len(chats) + Len(tiles)
Triggers == Len(starts) + Len(stops) + InputCount + micClicks

-----------------------------------------------------------------------------
(* startSession *)

\* if (pc) { try { pc.close(); } catch {} }
ClosePriorSkip(cs, p) == cs

ClosePrior(cs, p) == IF p # 0 THEN [cs EXCEPT ![p].closed = TRUE] ELSE cs

\* r.status >= 400 || !j.offer_sdp
StartFailedStatusOnly(r) == r.http >= 400

StartFailed(r) == r.http >= 400 \/ ~Truthy(r.offer)

\* the catch block of the negotiation: flog(...) is awaited first
StartThrow(i) ==
  /\ starts' = [starts EXCEPT ![i].at = "log_webrtc_err"]
  /\ logs' = logs \cup {Log(<<"start", i>>, "webrtc/start error")}

\* the click: startSession runs to `await flog("Start button pressed")`
StartClick ==
  /\ Len(starts) < quota.start
  /\ Triggers < quota.total
  /\ starts' = Append(starts, NewStart)
  /\ placeholder' = IF variant = "unnamed" THEN "none" ELSE placeholder
  /\ logs' = logs \cup {Log(<<"start", Len(starts) + 1>>, "Start button pressed")}
  /\ UNCHANGED << variant, quota, history, mediaVars, recVars, sessionVars, status, gate, editBox, net, stops, inputVars >>

\* setStatus("requesting viewer params"); fetch(/api/start-session)
StartRequest(i) ==
  /\ starts[i].at = "log_pressed"
  /\ status' = "requesting viewer params"
  /\ net' = net \cup {Req("start-session", <<"start", i>>)}
  /\ starts' = [starts EXCEPT ![i].at = "fetch_start"]
  /\ UNCHANGED << variant, quota, history, mediaVars, recVars, sessionVars, placeholder, gate, editBox, logs, stops, inputVars >>

\* the fetch settles: rejected -> catch; else j = body, flog(response)
StartResponse(i) ==
  /\ starts[i].at = "fetch_start"
  /\ \E r \in StartResponses(i) :
       IF r.http = 0
       THEN /\ starts' = [starts EXCEPT ![i].at = "log_start_failed"]
            /\ logs' = logs \cup {Log(<<"start", i>>, "start-session failed")}
       ELSE /\ starts' = [starts EXCEPT ![i].at = "log_start_resp", ![i].resp = r]
            /\ logs' = logs \cup {Log(<<"start", i>>, "/api/start-session response")}
  /\ UNCHANGED << variant, quota, history, mediaVars, recVars, sessionVars, status, placeholder, gate, editBox, net, stops, inputVars >>

\* if (r.status >= 400 || !j.offer_sdp) throw ...  -> catch: flog(failed)
StartRejected(i) ==
  /\ starts[i].at = "log_start_resp"
  /\ StartFailed(starts[i].resp)
  /\ starts' = [starts EXCEPT ![i].at = "log_start_failed"]
  /\ logs' = logs \cup {Log(<<"start", i>>, "start-session failed")}
  /\ UNCHANGED << variant, quota, history, mediaVars, recVars, sessionVars, status, placeholder, gate, editBox, net, stops, inputVars >>

\* setStatus("init error (start-session)"); placeholder back; return
StartAbort(i) ==
  /\ starts[i].at = "log_start_failed"
  /\ status' = "init error (start-session)"
  /\ placeholder' = IF variant = "unnamed" THEN "" ELSE placeholder
  /\ starts' = [starts EXCEPT ![i] = DoneStart("abort")]
  /\ UNCHANGED << variant, quota, history, mediaVars, recVars, sessionVars, gate, editBox, net, logs, stops, inputVars >>

\* the response is accepted: the globals are assigned, the prior connection
\* is closed, a new one is created and setRemoteDescription is called on it.
\* new RTCPeerConnection(RTC_CONFIG) throws on a configuration the browser
\* rejects (rtc_config comes from the backend).
StartNegotiate(i) ==
  /\ starts[i].at = "log_start_resp"
  /\ ~StartFailed(starts[i].resp)
  /\ SESSION_ID' = starts[i].resp.sid
  /\ SESSION_TOKEN' = starts[i].resp.tok
  /\ OFFER_SDP' = starts[i].resp.offer
  /\ \E ctorOk \in BOOLEAN :
       IF ctorOk
       THEN /\ conns' = Append(ClosePrior(conns, pc), NewConn)
            /\ pc' = Len(conns) + 1
            /\ status' = "applying offer"
            /\ starts' = [starts EXCEPT ![i].at = "await_setRemote",
                                        ![i].opc = Len(conns) + 1,
                                        ![i].mine = Len(conns) + 1]
            /\ logs' = logs
       ELSE /\ conns' = ClosePrior(conns, pc)
            /\ pc' = pc
            /\ status' = status
            /\ StartThrow(i)
  /\ UNCHANGED << variant, quota, history, mediaVars, recVars, placeholder, gate, editBox, net, stops, inputVars >>

\* await pc.setRemoteDescription(...) settles; then setStatus("creating
\* answer") and pc.createAnswer() on whatever pc holds now
StartRemoteSet(i) ==
  /\ starts[i].at = "await_setRemote"
  /\ LET c == starts[i].opc IN
     \E ok \in BOOLEAN :
       IF ok /\ ~conns[c].closed
       THEN /\ conns' = [conns EXCEPT ![c].remote = TRUE]
            /\ status' = "creating answer"
            /\ IF pc = 0
               THEN StartThrow(i)
               ELSE /\ starts' = [starts EXCEPT ![i].at = "await_createAnswer", ![i].opc = pc]
                    /\ logs' = logs
       ELSE /\ conns' = conns
            /\ status' = status
            /\ StartThrow(i)
  /\ UNCHANGED << variant, quota, history, mediaVars, recVars, SESSION_ID, SESSION_TOKEN, OFFER_SDP, pc,
                  placeholder, gate, editBox, net, stops, inputVars >>

\* await pc.createAnswer() settles; then pc.setLocalDescription(answer) on
\* whatever pc holds now
StartAnswerCreated(i) ==
  /\ starts[i].at = "await_createAnswer"
  /\ LET c == starts[i].opc IN
     \E ok \in BOOLEAN :
       IF ok /\ ~conns[c].closed /\ conns[c].remote /\ pc # 0
       THEN /\ starts' = [starts EXCEPT ![i].at = "await_setLocal", ![i].ans = c, ![i].opc = pc]
            /\ logs' = logs
       ELSE StartThrow(i)
  /\ UNCHANGED << variant, quota, history, mediaVars, recVars, sessionVars, status, placeholder, gate, editBox, net, stops, inputVars >>

\* an executor that registers the listener only
ArmTimerNever(complete) == "none"

\* the executor of the ICE wait: `if (complete) return res();` comes before
\* setTimeout(res, 1500), so the timer is armed exactly when it has to wait
ArmTimer(complete) == IF complete THEN "none" ELSE "armed"

\* await pc.setLocalDescription(answer) settles; then the executor of the
\* ICE wait runs: resolved at once when gathering is complete, else a
\* listener on pc and a 1500 ms timer
StartLocalSet(i) ==
  /\ starts[i].at = "await_setLocal"
  /\ LET c == starts[i].opc IN
     \E ok \in BOOLEAN :
       IF ok /\ ~conns[c].closed /\ conns[c].remote /\ pc # 0
       THEN /\ conns' = [conns EXCEPT ![c].local = starts[i].ans,
                                      ![c].ice = IF @ = "new" THEN "gathering" ELSE @]
            /\ starts' = [starts EXCEPT ![i].at = "await_ice", ![i].opc = pc,
                                        ![i].res = (conns'[pc].ice = "complete"),
                                        ![i].timer = ArmTimer(conns'[pc].ice = "complete")]
            /\ logs' = logs
       ELSE /\ conns' = conns
            /\ StartThrow(i)
  /\ UNCHANGED << variant, quota, history, mediaVars, recVars, SESSION_ID, SESSION_TOKEN, OFFER_SDP, pc,
                  status, placeholder, gate, editBox, net, stops, inputVars >>

\* the browser finishes gathering on connection c: icegatheringstatechange
\* fires and the listeners h of the waiting invocations resolve their waits
IceComplete(c) ==
  /\ conns[c].ice = "gathering"
  /\ ~conns[c].closed
  /\ conns' = [conns EXCEPT ![c].ice = "complete"]
  /\ starts' = [k \in DOMAIN starts |->
                  IF starts[k].at = "await_ice" /\ starts[k].opc = c /\ starts[k].timer # "none"
                  THEN [starts[k] EXCEPT !.res = TRUE] ELSE starts[k]]
  /\ UNCHANGED << variant, quota, history, mediaVars, recVars, SESSION_ID, SESSION_TOKEN, OFFER_SDP, pc,
                  status, placeholder, gate, editBox, net, logs, stops, inputVars >>

\* setTimeout(res, 1500) fires
IceTimeout(i) ==
  /\ starts[i].timer = "armed"
  /\ starts' = [starts EXCEPT ![i].timer = "fired", ![i].res = TRUE]
  /\ UNCHANGED << variant, quota, history, mediaVars, recVars, sessionVars, status, placeholder, gate, editBox,
                  net, logs, stops, inputVars >>

\* the wait is over: setStatus("starting on HeyGen"), the form is built from
\* the globals and pc.localDescription.sdp, fetch(/api/heygen/start)
StartUpload(i) ==
  /\ starts[i].at = "await_ice"
  /\ starts[i].res
  /\ status' = "starting on HeyGen"
  /\ IF pc # 0 /\ conns[IF pc = 0 THEN 1 ELSE pc].local # 0
     THEN /\ net' = net \cup {[Req("heygen-start", <<"start", i>>) EXCEPT
                                   !.sid = SESSION_ID, !.tok = SESSION_TOKEN,
                                   !.sdp = conns[pc].local]}
          /\ starts' = [starts EXCEPT ![i].at = "fetch_heygen"]
          /\ logs' = logs
     ELSE /\ net' = net
          /\ StartThrow(i)
  /\ UNCHANGED << variant, quota, history, mediaVars, recVars, sessionVars, placeholder, gate, editBox, stops, inputVars >>

\* the heygen-start fetch settles: rejected -> catch; else flog(response)
StartHeygenResponse(i) ==
  /\ starts[i].at = "fetch_heygen"
  /\ \E http \in {0, 200, 500} :
       IF http = 0
       THEN StartThrow(i)
       ELSE /\ starts' = [starts EXCEPT ![i].at = "log_heygen_resp", ![i].resp.http = http]
            /\ logs' = logs \cup {Log(<<"start", i>>, "/api/heygen/start response")}
  /\ UNCHANGED << variant, quota, history, mediaVars, recVars, sessionVars, status, placeholder, gate, editBox, net, stops, inputVars >>

\* if (rStart.status >= 400) throw; setStatus("waiting for media"); gate shown
StartFinish(i) ==
  /\ starts[i].at = "log_heygen_resp"
  /\ IF starts[i].resp.http >= 400
     THEN /\ StartThrow(i)
          /\ UNCHANGED << status, gate >>
     ELSE /\ status' = "waiting for media"
          /\ gate' = "flex"
          /\ starts' = [starts EXCEPT ![i] = DoneStart("ok")]
          /\ logs' = logs
  /\ UNCHANGED << variant, quota, history, mediaVars, recVars, sessionVars, placeholder, editBox, net, stops, inputVars >>

\* the rest of the catch block: setStatus("init error (webrtc)")
StartCatch(i) ==
  /\ starts[i].at = "log_webrtc_err"
  /\ status' = "init error (webrtc)"
  /\ placeholder' = IF variant = "unnamed" THEN "" ELSE placeholder
  /\ starts' = [starts EXCEPT ![i] = DoneStart("error")]
  /\ UNCHANGED << variant, quota, history, mediaVars, recVars, sessionVars, gate, editBox, net, logs, stops, inputVars >>

-----------------------------------------------------------------------------
(* stopSession *)

\* kept with a stop invocation when `history` is on: the start invocations
\* in flight, and how many start triggers there have been
InFlight == IF history THEN {i \in DOMAIN starts : starts[i].at # "done"} ELSE {}
Seen == IF history THEN Len(starts) ELSE 0

\* the click: stopSession runs to `await flog("Stop button pressed")`
StopClick ==
  /\ Len(stops) < quota.stop
  /\ Triggers < quota.total
  /\ stops' = Append(stops, [at |-> "log_pressed", during |-> InFlight, seen |-> Seen])
  /\ logs' = logs \cup {Log(<<"stop", Len(stops) + 1>>, "Stop button pressed")}
  /\ UNCHANGED << variant, quota, history, mediaVars, recVars, sessionVars, status, placeholder, gate, editBox, net, starts, inputVars >>

\* fetch(/api/stop-session)
StopRequest(k) ==
  /\ stops[k].at = "log_pressed"
  /\ net' = net \cup {Req("stop-session", <<"stop", k>>)}
  /\ stops' = [stops EXCEPT ![k].at = "fetch_stop"]
  /\ UNCHANGED << variant, quota, history, mediaVars, recVars, sessionVars, status, placeholder, gate, editBox, logs, starts, inputVars >>

\* a stopSession whose try block had no catch: the rejection leaves the handler
StopSettledUncaught(ok) == IF ok THEN "closing" ELSE "thrown"

\* where stopSession continues once the try/catch around the fetch is over:
\* the catch swallows the rejection, so the close is reached either way
StopSettled(ok) == "closing"

\* the fetch settles; either way one flog is awaited (response or error)
StopResponse(k) ==
  /\ stops[k].at = "fetch_stop"
  /\ \E ok \in BOOLEAN :
       /\ logs' = logs \cup {Log(<<"stop", k>>,
                    IF ok THEN "/api/stop-session response" ELSE "stop-session error")}
       /\ stops' = [stops EXCEPT ![k].at = StopSettled(ok)]
  /\ UNCHANGED << variant, quota, history, mediaVars, recVars, sessionVars, status, placeholder, gate, editBox, net, starts, inputVars >>

\* if (pc) { pc.close(); pc = null; }  setStatus("stopped.")
StopFinish(k) ==
  /\ stops[k].at = "closing"
  /\ conns' = IF pc # 0 THEN [conns EXCEPT ![pc].closed = TRUE] ELSE conns
  /\ pc' = 0
  /\ placeholder' = IF variant = "unnamed" THEN "" ELSE placeholder
  /\ status' = "stopped."
  /\ stops' = [stops EXCEPT ![k].at = "done", ![k].during = @ \cap InFlight]
  /\ UNCHANGED << variant, quota, history, mediaVars, recVars, SESSION_ID, SESSION_TOKEN, OFFER_SDP, gate, editBox,
                  net, logs, starts, inputVars >>

-----------------------------------------------------------------------------
(* The session specification: start and stop triggers only *)

InitPage ==
  /\ variant \in Variants
  /\ SESSION_ID = Null /\ SESSION_TOKEN = Null /\ OFFER_SDP = Null /\ pc = 0
  /\ conns = << >>
  /\ status = "Ready."
  /\ placeholder = ""
  /\ gate = ""
  /\ net = {}
  /\ logs = {}
  /\ starts = << >> /\ stops = << >>
  /\ sends = << >> /\ chats = << >> /\ tiles = << >>
  /\ mediaRecorder = 0 /\ chunks = << >>
  /\ recs = << >> /\ streams = << >> /\ mics = << >>
  /\ micBtn = FALSE /\ micClicks = 0
  /\ videoEl = [src |-> 0, muted |-> FALSE]
  /\ audioEl = [src |-> 0, muted |-> TRUE]
  /\ tracked = {} /\ audios = << >> /\ gateClicks = 0

InitCommon == InitPage /\ history = FALSE

Init ==
  /\ InitCommon
  /\ editBox = << >>
  /\ quota = [start |-> MaxStarts, stop |-> MaxStops, input |-> 0, mic |-> 0,
              total |-> MaxStarts + MaxStops]

StartNext ==
  \/ StartClick
  \/ \E i \in DOMAIN starts : StartRequest(i)
  \/ \E i \in DOMAIN starts : StartResponse(i)
  \/ \E i \in DOMAIN starts : StartRejected(i)
  \/ \E i \in DOMAIN starts : StartAbort(i)
  \/ \E i \in DOMAIN starts : StartNegotiate(i)
  \/ \E i \in DOMAIN starts : StartRemoteSet(i)
  \/ \E i \in DOMAIN starts : StartAnswerCreated(i)
  \/ \E i \in DOMAIN starts : StartLocalSet(i)
  \/ \E i \in DOMAIN starts : IceTimeout(i)
  \/ \E i \in DOMAIN starts : StartUpload(i)
  \/ \E i \in DOMAIN starts : StartHeygenResponse(i)
  \/ \E i \in DOMAIN starts : StartFinish(i)
  \/ \E i \in DOMAIN starts : StartCatch(i)
  \/ \E c \in DOMAIN conns : IceComplete(c)

StopNext ==
  \/ StopClick
  \/ \E k \in DOMAIN stops : StopRequest(k)
  \/ \E k \in DOMAIN stops : StopResponse(k)
  \/ \E k \in DOMAIN stops : StopFinish(k)

Next == StartNext \/ StopNext

Spec == Init /\ [][Next]_vars

\* the session specification with one start trigger, the stop invocations
\* remembering which start they overlapped
InitOverlap ==
  /\ InitPage
  /\ history = TRUE
  /\ editBox = << >>
  /\ quota = [start |-> 1, stop |-> MaxStops, input |-> 0, mic |-> 0, total |-> 1 + MaxStops]

SpecOverlap == InitOverlap /\ [][Next]_vars

-----------------------------------------------------------------------------
(* Input bridge: Direct send, instruction, chat passthrough, tiles *)


\* a send-task request with the held identifiers
SendTask(by, text) ==
  [Req("send-task", by) EXCEPT !.sid = SESSION_ID, !.tok = SESSION_TOKEN, !.text = text]

NewSend == [at |-> "done", out |-> "", text |-> << >>, sid |-> "", tok |-> ""]

\* the first segment of the sendBtn click handler, run as invocation i:
\* return on empty text, "Start session first." without a session, else
\* the payload is built and flog("Send to avatar clicked") awaited
SendEntry(i, prior) ==
  LET text == Trim(editBox) IN
  IF text = << >>
  THEN /\ sends' = prior \o << [NewSend EXCEPT !.out = "empty"] >>
       /\ UNCHANGED << status, logs >>
  ELSE IF ~SessionActive
  THEN /\ sends' = prior \o << [NewSend EXCEPT !.out = "nosession"] >>
       /\ status' = "Start session first."
       /\ UNCHANGED logs
  ELSE /\ sends' = prior \o << [NewSend EXCEPT !.at = "log_clicked", !.text = text,
                                             !.sid = SESSION_ID, !.tok = SESSION_TOKEN] >>
       /\ logs' = logs \cup {Log(<<"send", i>>, "Send to avatar clicked")}
       /\ UNCHANGED status

\* the user clicks "send to avatar"
SendClick ==
  /\ InputCount < quota.input
  /\ Triggers < quota.total
  /\ SendEntry(Len(sends) + 1, sends)
  /\ UNCHANGED << variant, quota, history, mediaVars, recVars, sessionVars, placeholder, gate, editBox, net,
                  starts, stops, chats, tiles >>

\* the user clicks "instruction": the text is put in the edit box and
\* flog("Instruction pressed") awaited
InstrClick ==
  /\ InputCount < quota.input
  /\ Triggers < quota.total
  /\ editBox' = << "m" >>
  /\ sends' = Append(sends, [NewSend EXCEPT !.at = "instr_log"])
  /\ logs' = logs \cup {Log(<<"send", Len(sends) + 1>>, "Instruction pressed")}
  /\ UNCHANGED << variant, quota, history, mediaVars, recVars, sessionVars, status, placeholder, gate, net,
                  starts, stops, chats, tiles >>

\* sendBtn.click() in the instruction handler runs the send handler
InstrSend(i) ==
  /\ sends[i].at = "instr_log"
  /\ i = Len(sends)
  /\ SendEntry(i, SubSeq(sends, 1, i - 1))
  /\ UNCHANGED << variant, quota, history, mediaVars, recVars, sessionVars, placeholder, gate, editBox, net,
                  starts, stops, chats, tiles >>

\* fetch(/api/send-task) with the payload built at the click
SendRequest(i) ==
  /\ sends[i].at = "log_clicked"
  /\ net' = net \cup {[Req("send-task", <<"send", i>>) EXCEPT
                        !.sid = sends[i].sid, !.tok = sends[i].tok, !.text = sends[i].text]}
  /\ sends' = [sends EXCEPT ![i].at = "fetch"]
  /\ UNCHANGED << variant, quota, history, mediaVars, recVars, sessionVars, status, placeholder, gate, editBox, logs,
                  starts, stops, chats, tiles >>

\* the fetch settles: the response is logged; a rejection is not caught and
\* ends the handler
SendResponse(i) ==
  /\ sends[i].at = "fetch"
  /\ \E ok \in BOOLEAN :
       IF ok
       THEN /\ sends' = [sends EXCEPT ![i].at = "log_resp"]
            /\ logs' = logs \cup {Log(<<"send", i>>, "/api/send-task response")}
       ELSE /\ sends' = [sends EXCEPT ![i] = [NewSend EXCEPT !.out = "rejected"]]
            /\ logs' = logs
  /\ UNCHANGED << variant, quota, history, mediaVars, recVars, sessionVars, status, placeholder, gate, editBox, net,
                  starts, stops, chats, tiles >>

\* the handler returns after the last flog
SendDone(i) ==
  /\ sends[i].at = "log_resp"
  /\ sends' = [sends EXCEPT ![i] = [NewSend EXCEPT !.out = "sent"]]
  /\ UNCHANGED << variant, quota, history, mediaVars, recVars, sessionVars, status, placeholder, gate, editBox, net, logs,
                  starts, stops, chats, tiles >>

\* what /api/chat and /api/perfume-explain can answer: a network failure
\* (http 0) or a status with a body that is JSON or not; an absent
\* response field and an empty one are both falsy
ReplyResponses ==
  { [http |-> 0, json |-> FALSE, response |-> << >>] }
  \cup { [http |-> h, json |-> FALSE, response |-> << >>] : h \in {200, 500} }
  \cup { [http |-> 200, json |-> TRUE, response |-> t] : t \in Texts }
  \cup { [http |-> 500, json |-> TRUE, response |-> << " ", "a" >>] }

NewChat == [at |-> "done", out |-> "", text |-> << >>, http |-> 0, reply |-> << >>]

\* the catch block of the chat handler: flog("error") is awaited first
ChatThrow(i) ==
  /\ chats' = [chats EXCEPT ![i].at = "log_err"]
  /\ logs' = logs \cup {Log(<<"chat", i>>, "error")}

\* the user clicks "ChatGPT": the text is read and the press logged
ChatClick ==
  /\ InputCount < quota.input
  /\ Triggers < quota.total
  /\ chats' = Append(chats, [NewChat EXCEPT !.at = "log_pressed", !.text = Trim(editBox)])
  /\ logs' = logs \cup {Log(<<"chat", Len(chats) + 1>>, "Send to ChatGPT pressed")}
  /\ UNCHANGED << variant, quota, history, mediaVars, recVars, sessionVars, status, placeholder, gate, editBox, net,
                  starts, stops, sends, tiles >>

\* fetch(/api/chat) with the text or "Hello"; perfume.js sets the status first
ChatRequest(i) ==
  /\ chats[i].at = "log_pressed"
  /\ status' = IF variant = "frontend" THEN "Sending to ChatGPT" ELSE status
  /\ net' = net \cup {[Req("chat", <<"chat", i>>) EXCEPT
                        !.text = OrElse(chats[i].text, << "H" >>)]}
  /\ chats' = [chats EXCEPT ![i].at = "fetch"]
  /\ UNCHANGED << variant, quota, history, mediaVars, recVars, sessionVars, placeholder, gate, editBox, logs,
                  starts, stops, sends, tiles >>

\* the fetch settles and the body is read: perfume.js turns a malformed
\* body into {}; in part_000 r.json() throws on it
ChatResponse(i) ==
  /\ chats[i].at = "fetch"
  /\ \E r \in ReplyResponses :
       IF r.http = 0 \/ (variant = "unnamed" /\ ~r.json)
       THEN ChatThrow(i)
       ELSE /\ chats' = [chats EXCEPT ![i].at = "log_resp", ![i].http = r.http,
                                      ![i].reply = r.response]
            /\ logs' = logs \cup {Log(<<"chat", i>>, "/api/chat response")}
  /\ UNCHANGED << variant, quota, history, mediaVars, recVars, sessionVars, status, placeholder, gate, editBox, net,
                  starts, stops, sends, tiles >>

\* perfume.js: if (r.status >= 400) { setStatus(...); return; }
\* part_000 has no such check
ChatStatusCheck(v, http) == v = "frontend" /\ http >= 400

\* after the response is logged: the status check, then the trimmed reply
\* goes to the edit box and, with a session, to send-task; "Ready."
ChatFinish(i) ==
  /\ chats[i].at = "log_resp"
  /\ LET reply == Trim(chats[i].reply) IN
     IF ChatStatusCheck(variant, chats[i].http)
     THEN /\ status' = "OpenAI error (see debug box)"
          /\ chats' = [chats EXCEPT ![i] = [NewChat EXCEPT !.out = "status"]]
          /\ UNCHANGED << editBox, net >>
     ELSE /\ editBox' = IF reply # << >> THEN reply ELSE editBox
          /\ net' = IF reply # << >> /\ SessionActive
                    THEN net \cup {SendTask(<<"chat", i>>, reply)} ELSE net
          /\ status' = "Ready."
          /\ chats' = [chats EXCEPT ![i] = [NewChat EXCEPT !.out = "ready"]]
  /\ UNCHANGED << variant, quota, history, mediaVars, recVars, sessionVars, placeholder, gate, logs,
                  starts, stops, sends, tiles >>

\* the rest of the catch block: setStatus("OpenAI error")
ChatCatch(i) ==
  /\ chats[i].at = "log_err"
  /\ status' = "OpenAI error"
  /\ chats' = [chats EXCEPT ![i] = [NewChat EXCEPT !.out = "error"]]
  /\ UNCHANGED << variant, quota, history, mediaVars, recVars, sessionVars, placeholder, gate, editBox, net, logs,
                  starts, stops, sends, tiles >>

\* the tiles of the grid: the data-say attribute and the figcaption, each
\* absent or a text; NoTile is a click that hits no .perfume-item
NoTile == [fig |-> FALSE, hasSay |-> FALSE, say |-> << >>, hasCap |-> FALSE, cap |-> << >>]

Tiles ==
  { NoTile,
    [fig |-> TRUE, hasSay |-> FALSE, say |-> << >>,      hasCap |-> FALSE, cap |-> << >>],
    [fig |-> TRUE, hasSay |-> TRUE,  say |-> << >>,      hasCap |-> TRUE,  cap |-> << " " >>],
    [fig |-> TRUE, hasSay |-> TRUE,  say |-> << " " >>,  hasCap |-> TRUE,  cap |-> << "b" >>],
    [fig |-> TRUE, hasSay |-> FALSE, say |-> << >>,      hasCap |-> TRUE,  cap |-> << "b" >>],
    [fig |-> TRUE, hasSay |-> TRUE,  say |-> << "a" >>,  hasCap |-> TRUE,  cap |-> << "b" >>] }

\* fig.getAttribute("data-say") || (cap ? cap.textContent : "") || ""
\* (getAttribute gives null without the attribute, which is falsy like "")
TileSay(t) ==
  OrElse(IF t.hasSay THEN t.say ELSE << >>, IF t.hasCap THEN t.cap ELSE << >>)

NewTile == [at |-> "done", out |-> "", nm |-> << >>, http |-> 0, reply |-> << >>]

\* the catch block of explainPerfume: flog(error) is awaited first
TileThrow(i) ==
  /\ tiles' = [tiles EXCEPT ![i].at = "log_err"]
  /\ logs' = logs \cup {Log(<<"tile", i>>, "perfume-explain error")}

\* a click in the grid: the handler returns without a tile or with an empty
\* label; else explainPerfume(say) runs to its first await
TileClick(t) ==
  /\ InputCount < quota.input
  /\ Triggers < quota.total
  /\ LET nm == Trim(TileSay(t)) IN
     IF ~t.fig \/ nm = << >>
     THEN /\ tiles' = Append(tiles, [NewTile EXCEPT !.out = "noop"])
          /\ UNCHANGED << editBox, logs >>
     ELSE /\ tiles' = Append(tiles, [NewTile EXCEPT !.at = "log_pressed", !.nm = nm])
          /\ editBox' = nm
          /\ logs' = logs \cup {Log(<<"tile", Len(tiles) + 1>>, "tile pressed")}
  /\ UNCHANGED << variant, quota, history, mediaVars, recVars, sessionVars, status, placeholder, gate, net,
                  starts, stops, sends, chats >>

\* with a session the label goes to send-task (not awaited); then the
\* status is set and fetch(/api/perfume-explain) issued
TileRequest(i) ==
  /\ tiles[i].at = "log_pressed"
  /\ LET fwd == IF SessionActive THEN {SendTask(<<"tile", i>>, tiles[i].nm)} ELSE {} IN
     net' = net \cup fwd \cup
            {[Req("perfume-explain", <<"tile", i>>) EXCEPT
                !.n = Cardinality({r \in net \cup fwd : r.by = <<"tile", i>>}) + 1,
                !.text = tiles[i].nm]}
  /\ status' = "Getting perfume details"
  /\ tiles' = [tiles EXCEPT ![i].at = "fetch"]
  /\ UNCHANGED << variant, quota, history, mediaVars, recVars, sessionVars, placeholder, gate, editBox, logs,
                  starts, stops, sends, chats >>

\* the fetch settles; a malformed body reads as {}
TileResponse(i) ==
  /\ tiles[i].at = "fetch"
  /\ \E r \in ReplyResponses :
       IF r.http = 0
       THEN TileThrow(i)
       ELSE /\ tiles' = [tiles EXCEPT ![i].at = "log_resp", ![i].http = r.http,
                                      ![i].reply = r.response]
            /\ logs' = logs \cup {Log(<<"tile", i>>, "/api/perfume-explain response")}
  /\ UNCHANGED << variant, quota, history, mediaVars, recVars, sessionVars, status, placeholder, gate, editBox, net,
                  starts, stops, sends, chats >>

\* an explainPerfume without the status check
TileFailedNever(http) == FALSE

\* if (r.status >= 400) { setStatus("OpenAI error (see debug)"); return; }
TileFailed(http) == http >= 400

\* the status check, then the trimmed reply goes to the edit box and, with
\* a session, to send-task; "Ready."
TileFinish(i) ==
  /\ tiles[i].at = "log_resp"
  /\ LET reply == Trim(tiles[i].reply) IN
     IF TileFailed(tiles[i].http)
     THEN /\ status' = "OpenAI error (see debug)"
          /\ tiles' = [tiles EXCEPT ![i] = [NewTile EXCEPT !.out = "status"]]
          /\ UNCHANGED << editBox, net >>
     ELSE /\ editBox' = IF reply # << >> THEN reply ELSE editBox
          /\ net' = IF reply # << >> /\ SessionActive
                    THEN net \cup {SendTask(<<"tile", i>>, reply)} ELSE net
          /\ status' = "Ready."
          /\ tiles' = [tiles EXCEPT ![i] = [NewTile EXCEPT !.out = "ready"]]
  /\ UNCHANGED << variant, quota, history, mediaVars, recVars, sessionVars, placeholder, gate, logs,
                  starts, stops, sends, chats >>

\* the rest of the catch block: setStatus("OpenAI error")
TileCatch(i) ==
  /\ tiles[i].at = "log_err"
  /\ status' = "OpenAI error"
  /\ tiles' = [tiles EXCEPT ![i] = [NewTile EXCEPT !.out = "error"]]
  /\ UNCHANGED << variant, quota, history, mediaVars, recVars, sessionVars, placeholder, gate, editBox, net, logs,
                  starts, stops, sends, chats >>

-----------------------------------------------------------------------------
(* The input specification: one start trigger and the input bridge *)

InitInput ==
  /\ InitCommon
  /\ editBox \in Texts
  /\ quota = [start |-> 1, stop |-> 0, input |-> MaxInputs, mic |-> 0,
              total |-> MaxInputs]

InputNext ==
  \/ SendClick
  \/ InstrClick
  \/ \E i \in DOMAIN sends : InstrSend(i)
  \/ \E i \in DOMAIN sends : SendRequest(i)
  \/ \E i \in DOMAIN sends : SendResponse(i)
  \/ \E i \in DOMAIN sends : SendDone(i)
  \/ ChatClick
  \/ \E i \in DOMAIN chats : ChatRequest(i)
  \/ \E i \in DOMAIN chats : ChatResponse(i)
  \/ \E i \in DOMAIN chats : ChatFinish(i)
  \/ \E i \in DOMAIN chats : ChatCatch(i)
  \/ \E t \in Tiles : TileClick(t)
  \/ \E i \in DOMAIN tiles : TileRequest(i)
  \/ \E i \in DOMAIN tiles : TileResponse(i)
  \/ \E i \in DOMAIN tiles : TileFinish(i)
  \/ \E i \in DOMAIN tiles : TileCatch(i)

NextInput == StartNext \/ InputNext

SpecInput == InitInput /\ [][NextInput]_vars

-----------------------------------------------------------------------------
(* Recorder: startRecording, stopRecording, the recorder's events *)

\* a MediaRecorder: its state, the stream it records, the events the
\* browser still owes after stop() ("data", then "stop"), the position of
\* its onstop handler, and that handler's locals
NewRec(st) == [state |-> "inactive", stream |-> st, pending |-> "none", sent |-> 0,
               got |-> << >>,
               on |-> "idle", out |-> "", blob |-> << >>, hasText |-> FALSE, text |-> << >>]

\* what /api/voicechat and /api/transcribe can answer: a network failure
\* (http 0), or a status with a body whose text field is a string or is
\* missing (a malformed body reads as {})
UploadResponses ==
  { [http |-> 0, hasText |-> FALSE, text |-> << >>],
    [http |-> 200, hasText |-> FALSE, text |-> << >>],
    [http |-> 500, hasText |-> FALSE, text |-> << >>] }
  \cup { [http |-> 200, hasText |-> TRUE, text |-> t] : t \in Texts }

\* the catch block of startRecording: flog("permission/error") is awaited
MicThrow(i) ==
  /\ mics' = [mics EXCEPT ![i].at = "log_err"]
  /\ logs' = logs \cup {Log(<<"mic", i>>, "permission/error")}

\* a click on the mic button without a recorder handle: startRecording runs
\* to `await flog(...)`
MicClickStart ==
  /\ micClicks < quota.mic
  /\ Triggers < quota.total
  /\ mediaRecorder = 0
  /\ micClicks' = micClicks + 1
  /\ mics' = Append(mics, [at |-> "log_pressed"])
  /\ logs' = logs \cup {Log(<<"mic", Len(mics) + 1>>, "StartRecording pressed")}
  /\ UNCHANGED << variant, quota, history, mediaVars, sessionVars, status, placeholder, gate, editBox, net,
                  starts, stops, inputVars, mediaRecorder, chunks, recs, streams, micBtn >>

\* a click on the mic button with a recorder handle: stopRecording calls
\* mediaRecorder.stop(), which throws (and is caught) unless it records
MicClickStop ==
  /\ micClicks < quota.mic
  /\ Triggers < quota.total
  /\ mediaRecorder # 0
  /\ micClicks' = micClicks + 1
  /\ recs' = IF recs[mediaRecorder].state = "recording"
             THEN [recs EXCEPT ![mediaRecorder].state = "inactive",
                               ![mediaRecorder].pending = "data"]
             ELSE recs
  /\ UNCHANGED << variant, quota, history, mediaVars, sessionVars, status, placeholder, gate, editBox, net, logs,
                  starts, stops, inputVars, mediaRecorder, chunks, streams, micBtn, mics >>

\* perfume.js empties the edit box; getUserMedia is called
MicAcquire(i) ==
  /\ mics[i].at = "log_pressed"
  /\ editBox' = IF variant = "frontend" THEN << >> ELSE editBox
  /\ mics' = [mics EXCEPT ![i].at = "getUserMedia"]
  /\ UNCHANGED << variant, quota, history, mediaVars, sessionVars, status, placeholder, gate, net, logs,
                  starts, stops, inputVars, mediaRecorder, chunks, recs, streams, micBtn,
                  micClicks >>

\* getUserMedia settles.  Denied: catch.  Granted: the stream is acquired,
\* then the audio graph is built, chunks emptied, the recorder constructed
\* and assigned to mediaRecorder, and started; the first of these that
\* throws ("graph", "ctor", "start") leads to the catch block.
MicGranted(i) ==
  /\ mics[i].at = "getUserMedia"
  /\ \E fail \in {"denied", "graph", "ctor", "start", "none"} :
       LET st == Len(streams) + 1
           r  == Len(recs) + 1
       IN
       /\ streams' = IF fail = "denied" THEN streams ELSE Append(streams, [live |-> TRUE])
       /\ chunks' = IF fail \in {"denied", "graph"} THEN chunks ELSE << >>
       /\ recs' = IF fail \in {"start", "none"}
                  THEN Append(recs, [NewRec(st) EXCEPT
                                       !.state = IF fail = "none" THEN "recording" ELSE "inactive"])
                  ELSE recs
       /\ mediaRecorder' = IF fail \in {"start", "none"} THEN r ELSE mediaRecorder
       /\ IF fail = "none"
          THEN /\ status' = "Listening"
               /\ micBtn' = TRUE
               /\ mics' = [mics EXCEPT ![i].at = "done"]
               /\ logs' = logs
          ELSE /\ MicThrow(i)
               /\ UNCHANGED << status, micBtn >>
  /\ UNCHANGED << variant, quota, history, mediaVars, sessionVars, placeholder, gate, editBox, net,
                  starts, stops, inputVars, micClicks >>

\* the rest of the catch block: the status; perfume.js also resets the button
MicCatch(i) ==
  /\ mics[i].at = "log_err"
  /\ status' = "Mic permission denied"
  /\ micBtn' = IF variant = "frontend" THEN FALSE ELSE micBtn
  /\ mics' = [mics EXCEPT ![i].at = "done"]
  /\ UNCHANGED << variant, quota, history, mediaVars, sessionVars, placeholder, gate, editBox, net, logs,
                  starts, stops, inputVars, mediaRecorder, chunks, recs, streams, micClicks >>

\* the non-empty fragments a recorder has delivered so far, by number (kept
\* with the recorder when `history` is on, to state what its upload should
\* hold)
Delivered(got, k, size) == IF history /\ size > 0 THEN Append(got, k) ELSE got

\* ondataavailable: if (e.data && e.data.size) chunks.push(e.data)
Push(cs, r, k, size) == IF size > 0 THEN Append(cs, << r, k >>) ELSE cs

\* a timeslice elapses on a recorder started with start(150) (part_000)
DataAvailable(r) ==
  /\ variant = "unnamed"
  /\ recs[r].state = "recording"
  /\ recs[r].sent < MaxFrags
  /\ \E size \in {0, 1} :
       /\ chunks' = Push(chunks, r, recs[r].sent + 1, size)
       /\ recs' = [recs EXCEPT ![r].sent = @ + 1, ![r].got = Delivered(@, recs[r].sent + 1, size)]
  /\ UNCHANGED << variant, quota, history, mediaVars, sessionVars, status, placeholder, gate, editBox, net, logs,
                  starts, stops, inputVars, mediaRecorder, streams, micBtn, micClicks, mics >>

\* after stop() the recorder delivers the data gathered so far
RecFlush(r) ==
  /\ recs[r].pending = "data"
  /\ \E size \in {0, 1} :
       /\ chunks' = Push(chunks, r, recs[r].sent + 1, size)
       /\ recs' = [recs EXCEPT ![r].sent = @ + 1, ![r].pending = "stop",
                                ![r].got = Delivered(@, recs[r].sent + 1, size)]
  /\ UNCHANGED << variant, quota, history, mediaVars, sessionVars, status, placeholder, gate, editBox, net, logs,
                  starts, stops, inputVars, mediaRecorder, streams, micBtn, micClicks, mics >>

\* the finally block of onstop: the tracks of the handler's own stream are
\* stopped, the handle is cleared, the button reset
OnStopFinallyUnlessError(r, out) ==
  /\ streams' = IF out = "error" THEN streams
                ELSE [streams EXCEPT ![recs[r].stream].live = FALSE]
  /\ mediaRecorder' = 0
  /\ micBtn' = FALSE
  /\ recs' = [recs EXCEPT ![r] = [NewRec(recs[r].stream) EXCEPT
                                    !.on = "done", !.out = out, !.sent = recs[r].sent]]

OnStopFinally(r, out) ==
  /\ streams' = [streams EXCEPT ![recs[r].stream].live = FALSE]
  /\ mediaRecorder' = 0
  /\ micBtn' = FALSE
  /\ recs' = [recs EXCEPT ![r] = [NewRec(recs[r].stream) EXCEPT
                                    !.on = "done", !.out = out, !.sent = recs[r].sent]]

\* the stop event fires and onstop begins.  perfume.js: flog("EndRecording
\* fired") is awaited.  part_000: the blob is built at once, reading
\* mediaRecorder.mimeType, which throws when the handle is null; then
\* flog("sending") is awaited.
OnStopBegin(r) ==
  /\ recs[r].pending = "stop"
  /\ IF variant = "frontend"
     THEN /\ recs' = [recs EXCEPT ![r].pending = "none", ![r].on = "log_end"]
          /\ logs' = logs \cup {Log(<<"rec", r>>, "EndRecording fired")}
          /\ UNCHANGED << status, streams, mediaRecorder, micBtn >>
     ELSE IF mediaRecorder = 0
     THEN /\ status' = "Transcription error"
          /\ OnStopFinally(r, "error")
          /\ logs' = logs
     ELSE /\ recs' = [recs EXCEPT ![r].pending = "none", ![r].on = "log_sending",
                                  ![r].blob = chunks]
          /\ logs' = logs \cup {Log(<<"rec", r>>, "sending")}
          /\ UNCHANGED << status, streams, mediaRecorder, micBtn >>
  /\ UNCHANGED << variant, quota, history, mediaVars, sessionVars, placeholder, gate, editBox, net,
                  starts, stops, inputVars, chunks, micClicks, mics >>

\* perfume.js, after the first flog: the blob is built from chunks, the
\* status set and flog("sending to /api/voicechat") awaited
OnStopBlob(r) ==
  /\ recs[r].on = "log_end"
  /\ recs' = [recs EXCEPT ![r].on = "log_sending", ![r].blob = chunks]
  /\ status' = "Sending to ChatGPT"
  /\ logs' = logs \cup {Log(<<"rec", r>>, "sending")}
  /\ UNCHANGED << variant, quota, history, mediaVars, sessionVars, placeholder, gate, editBox, net,
                  starts, stops, inputVars, mediaRecorder, chunks, streams, micBtn,
                  micClicks, mics >>

\* fetch(/api/voicechat) or fetch(/api/transcribe) with the blob
OnStopUpload(r) ==
  /\ recs[r].on = "log_sending"
  /\ net' = net \cup {[Req(IF variant = "frontend" THEN "voicechat" ELSE "transcribe",
                           <<"rec", r>>) EXCEPT !.blob = recs[r].blob]}
  /\ recs' = [recs EXCEPT ![r].on = "fetch"]
  /\ UNCHANGED << variant, quota, history, mediaVars, sessionVars, status, placeholder, gate, editBox, logs,
                  starts, stops, inputVars, mediaRecorder, chunks, streams, micBtn,
                  micClicks, mics >>

\* the upload settles.  Rejected: perfume.js awaits flog in its catch,
\* part_000 sets the status and runs finally.  Else the body is read (a
\* malformed one as {}) and flog(response) awaited.
OnStopResponse(r) ==
  /\ recs[r].on = "fetch"
  /\ \E a \in UploadResponses :
       IF a.http # 0
       THEN /\ recs' = [recs EXCEPT ![r].on = "log_resp", ![r].hasText = a.hasText,
                                    ![r].text = a.text]
            /\ logs' = logs \cup {Log(<<"rec", r>>, "response")}
            /\ UNCHANGED << status, streams, mediaRecorder, micBtn >>
       ELSE IF variant = "frontend"
       THEN /\ recs' = [recs EXCEPT ![r].on = "log_err"]
            /\ logs' = logs \cup {Log(<<"rec", r>>, "voicechat error")}
            /\ UNCHANGED << status, streams, mediaRecorder, micBtn >>
       ELSE /\ status' = "Transcription error"
            /\ OnStopFinally(r, "error")
            /\ logs' = logs
  /\ UNCHANGED << variant, quota, history, mediaVars, sessionVars, placeholder, gate, editBox, net,
                  starts, stops, inputVars, chunks, micClicks, mics >>

\* after the response is logged.  perfume.js: a string text is trimmed into
\* the edit box and the status is "Ready.", else "Voicechat returned no
\* text.".  part_000: a truthy text goes to the edit box as it is, and the
\* status is "Ready." either way.  Then finally.
OnStopResult(r) ==
  /\ recs[r].on = "log_resp"
  /\ IF variant = "frontend"
     THEN IF recs[r].hasText
          THEN /\ editBox' = Trim(recs[r].text)
               /\ status' = "Ready."
               /\ OnStopFinally(r, "ready")
          ELSE /\ editBox' = editBox
               /\ status' = "Voicechat returned no text."
               /\ OnStopFinally(r, "notext")
     ELSE /\ editBox' = IF recs[r].hasText /\ recs[r].text # << >>
                        THEN recs[r].text ELSE editBox
          /\ status' = "Ready."
          /\ OnStopFinally(r, "ready")
  /\ UNCHANGED << variant, quota, history, mediaVars, sessionVars, placeholder, gate, net, logs,
                  starts, stops, inputVars, chunks, micClicks, mics >>

\* perfume.js, the rest of the catch block of onstop, then finally
OnStopCatch(r) ==
  /\ recs[r].on = "log_err"
  /\ status' = "Voicechat error"
  /\ OnStopFinally(r, "error")
  /\ UNCHANGED << variant, quota, history, mediaVars, sessionVars, placeholder, gate, editBox, net, logs,
                  starts, stops, inputVars, chunks, micClicks, mics >>

-----------------------------------------------------------------------------
(* The recorder specification: clicks on the mic button only *)

InitRec ==
  /\ InitCommon
  /\ editBox \in Texts
  /\ quota = [start |-> 0, stop |-> 0, input |-> 0, mic |-> MaxMics, total |-> MaxMics]

NextRec ==
  \/ MicClickStart
  \/ MicClickStop
  \/ \E i \in DOMAIN mics : MicAcquire(i)
  \/ \E i \in DOMAIN mics : MicGranted(i)
  \/ \E i \in DOMAIN mics : MicCatch(i)
  \/ \E r \in DOMAIN recs : DataAvailable(r)
  \/ \E r \in DOMAIN recs : RecFlush(r)
  \/ \E r \in DOMAIN recs : OnStopBegin(r)
  \/ \E r \in DOMAIN recs : OnStopBlob(r)
  \/ \E r \in DOMAIN recs : OnStopUpload(r)
  \/ \E r \in DOMAIN recs : OnStopResponse(r)
  \/ \E r \in DOMAIN recs : OnStopResult(r)
  \/ \E r \in DOMAIN recs : OnStopCatch(r)

SpecRec == InitRec /\ [][NextRec]_vars

\* the recorder specification with the delivered fragments remembered
InitFrag ==
  /\ InitPage
  /\ history = TRUE
  /\ editBox = << >>
  /\ quota = [start |-> 0, stop |-> 0, input |-> 0, mic |-> MaxMics, total |-> MaxMics]

SpecFrag == InitFrag /\ [][NextRec]_vars

\* the recorder specification with more clicks, on one initial edit text
InitClicks ==
  /\ InitCommon
  /\ editBox = << >>
  /\ quota = [start |-> 0, stop |-> 0, input |-> 0, mic |-> MaxClicks, total |-> MaxClicks]

SpecClicks == InitClicks /\ [][NextRec]_vars

-----------------------------------------------------------------------------
(* Inbound media: pc.ontrack and the audio gate.  The media specification
   runs one start with the track events of its connection and the clicks on
   the enable-audio button *)

\* a gate that is hidden whatever the playback attempt did
GateAfterAlwaysHidden(ok) == "none"

\* ensureAudio after `await audioEl.play()`: hidden on success, shown in the
\* catch block
GateAfter(ok) == IF ok THEN "none" ELSE "flex"

\* a track event on connection c, once its remote description is applied.
\* Without a stream the handler returns; a video track is attached muted and
\* played; an audio track is attached and ensureAudio is scheduled in 100 ms
Track(c, kind) ==
  /\ conns[c].remote /\ ~conns[c].closed
  /\ << c, kind >> \notin tracked
  /\ tracked' = tracked \cup {<< c, kind >>}
  /\ \E hasStream \in BOOLEAN :
       /\ videoEl' = IF hasStream /\ kind = "video"
                     THEN [src |-> c, muted |-> TRUE] ELSE videoEl
       /\ audioEl' = IF hasStream /\ kind = "audio"
                     THEN [audioEl EXCEPT !.src = c] ELSE audioEl
       /\ audios' = IF hasStream /\ kind = "audio"
                    THEN Append(audios, [at |-> "timer", by |-> "track", ok |-> FALSE])
                    ELSE audios
  /\ UNCHANGED << variant, quota, history, recVars, sessionVars, status, placeholder, gate, editBox,
                  net, logs, starts, stops, inputVars, gateClicks >>

\* the 100 ms timer fires: ensureAudio unmutes the element and calls play()
EnsureAudioTimer(a) ==
  /\ audios[a].at = "timer"
  /\ audioEl' = [audioEl EXCEPT !.muted = FALSE]
  /\ audios' = [audios EXCEPT ![a].at = "play"]
  /\ UNCHANGED << variant, quota, history, recVars, sessionVars, status, placeholder, gate, editBox,
                  net, logs, starts, stops, inputVars, videoEl, tracked, gateClicks >>

\* a click on the enable-audio button, which is inside the gate: ensureAudio
\* unmutes the element and calls play()
GateClick ==
  /\ gateClicks < MaxGateClicks
  /\ gate # "none"
  /\ gateClicks' = gateClicks + 1
  /\ audioEl' = [audioEl EXCEPT !.muted = FALSE]
  /\ audios' = Append(audios, [at |-> "play", by |-> "click", ok |-> FALSE])
  /\ UNCHANGED << variant, quota, history, recVars, sessionVars, status, placeholder, gate, editBox,
                  net, logs, starts, stops, inputVars, videoEl, tracked >>

\* audioEl.play() settles: resolved, or rejected (autoplay policy, no source)
EnsureAudioSettle(a) ==
  /\ audios[a].at = "play"
  /\ \E ok \in BOOLEAN :
       /\ gate' = GateAfter(ok)
       /\ audios' = [audios EXCEPT ![a].at = "done", ![a].ok = ok]
  /\ UNCHANGED << variant, quota, history, recVars, sessionVars, status, placeholder, editBox,
                  net, logs, starts, stops, inputVars, videoEl, audioEl, tracked, gateClicks >>

InitMedia ==
  /\ InitCommon
  /\ editBox = << >>
  /\ quota = [start |-> 1, stop |-> 0, input |-> 0, mic |-> 0, total |-> 1]

MediaNext ==
  \/ \E c \in DOMAIN conns : \E kind \in {"video", "audio"} : Track(c, kind)
  \/ \E a \in DOMAIN audios : EnsureAudioTimer(a)
  \/ GateClick
  \/ \E a \in DOMAIN audios : EnsureAudioSettle(a)

NextMedia == StartNext \/ MediaNext

SpecMedia == InitMedia /\ [][NextMedia]_vars

-----------------------------------------------------------------------------
(* The page specification: the session, input and recorder controls of the
   page, with a common budget of triggers *)

InitAll ==
  /\ InitCommon
  /\ editBox = << " ", "a" >>
  /\ quota = [start |-> 1, stop |-> 1, input |-> 1, mic |-> MaxAll, total |-> MaxAll]

NextAll == StartNext \/ StopNext \/ InputNext \/ NextRec

SpecAll == InitAll /\ [][NextAll]_vars

-----------------------------------------------------------------------------
(* Claims about the session controller *)

\* C1: in every reachable state every connection that is open (created and
\* not closed) is the one held in pc, so at most one connection is open and
\* a start has closed the connection it replaces.
C1_AtMostOneOpenConnection == \A c \in OpenConns : c = pc

\* C1 witness: a second start replaced the first connection
C1_Witness ==
  /\ Len(conns) = 2 /\ conns[1].closed /\ ~conns[2].closed /\ pc = 2
  /\ \E i \in DOMAIN starts : starts[i].mine = 2

\* C2 (as claimed): the step that completes stopSession leaves the held
\* connection closed and released and the session id and token cleared.
C2_StopClearsSession ==
  [][\A k \in DOMAIN stops :
       (stops[k].at = "closing" /\ stops'[k].at = "done")
         => /\ pc' = 0
            /\ OpenConns' = {}
            /\ ~Truthy(SESSION_ID') /\ ~Truthy(SESSION_TOKEN')]_vars

\* C3 (as claimed): when a negotiation step fails after the connection was
\* created, the invocation ends with the error status and a log line, with
\* no session id/token held and no connection open.
C3_NoPartialSession ==
  [][\A i \in DOMAIN starts :
       (starts[i].at = "log_webrtc_err" /\ starts[i].mine # 0 /\ starts'[i].at = "done")
         => /\ status' = "init error (webrtc)"
            /\ Log(<<"start", i>>, "webrtc/start error") \in logs'
            /\ ~Truthy(SESSION_ID') /\ ~Truthy(SESSION_TOKEN')
            /\ OpenConns' = {}]_vars

\* C4 (as claimed): after an abort on a non-success status or a missing
\* offer no session is active and the placeholder is shown again.
C4_AbortLeavesNoSession ==
  [][\A i \in DOMAIN starts :
       (starts[i].at = "log_start_failed" /\ starts[i].resp.http # 0 /\ starts'[i].at = "done")
         => /\ ~Truthy(SESSION_ID') /\ ~Truthy(SESSION_TOKEN')
            /\ OpenConns' = {}
            /\ placeholder' = ""]_vars

\* C4 (amended): an invocation whose start-session response has a
\* non-success status or lacks the offer creates no connection and leaves
\* the held session id, token and connection as they are in each of its
\* steps, ends as aborted with the start-session error status, and shows
\* the placeholder again.
C4_AbortChangesNothing ==
  [][\A i \in DOMAIN starts :
       /\ (starts[i].at = "log_start_resp" /\ starts[i].resp.http >= 400
             /\ starts'[i] # starts[i])
            => /\ UNCHANGED sessionVars
               /\ starts'[i].at = "log_start_failed"
       /\ (starts[i].at = "log_start_resp" /\ ~Truthy(starts[i].resp.offer)
             /\ starts'[i] # starts[i])
            => /\ UNCHANGED sessionVars
               /\ starts'[i].at = "log_start_failed"
       /\ (starts[i].at = "log_start_failed" /\ starts'[i] # starts[i])
            => /\ UNCHANGED sessionVars
               /\ starts[i].mine = 0
               /\ starts'[i].at = "done" /\ starts'[i].out = "abort"
               /\ status' = "init error (start-session)"
               /\ placeholder' = ""]_vars

\* C4 witness: a response without offer is being aborted while the session
\* of an earlier start is held
C4_Witness ==
  \E i \in DOMAIN starts :
    /\ starts[i].at = "log_start_failed"
    /\ starts[i].resp.http = 200 /\ ~Truthy(starts[i].resp.offer)
    /\ Truthy(SESSION_ID) /\ pc # 0

\* C7 (as claimed): the heygen-start request of an invocation carries the
\* session id and token of that invocation's start-session response and the
\* answer of the connection that invocation created.
C7_HeygenStartCarriesOwnSession ==
  \A i \in DOMAIN starts :
    (starts[i].at = "fetch_heygen" /\ Truthy(starts[i].resp.sid) /\ Truthy(starts[i].resp.tok))
      => \E r \in net :
           /\ r.ep = "heygen-start" /\ r.by = <<"start", i>>
           /\ r.sid = starts[i].resp.sid /\ r.tok = starts[i].resp.tok
           /\ r.sdp # 0 /\ r.sdp = starts[i].mine

-----------------------------------------------------------------------------
(* Claims about the input bridge, checked under SpecInput *)

\* a text without any character other than white space
IsBlank(s) == \A k \in 1 .. Len(s) : s[k] = " "

\* a step in which the send handler is entered as invocation i (by a click
\* on the button or by the instruction handler's sendBtn.click())
SendEntered(i) ==
  /\ i \in DOMAIN sends'
  /\ i \notin DOMAIN sends \/ sends[i].at = "instr_log"
  /\ sends'[i].at # "instr_log"

\* C8: when the trimmed edit text is empty, entering the send handler
\* changes nothing (no log call, no request, no status), with or without a
\* session; without a session the handler ends at once and issues no
\* request; and every send-task request of a send handler carries a session
\* id and token that were held and a text that is not blank.
C8_DirectSendNoop ==
  /\ [](\A r \in net :
          (r.ep = "send-task" /\ r.by[1] = "send")
            => Truthy(r.sid) /\ Truthy(r.tok) /\ ~IsBlank(r.text))
  /\ [][\A i \in DOMAIN sends' :
          SendEntered(i) =>
            /\ IsBlank(editBox) =>
                 /\ net' = net /\ logs' = logs
                 /\ sends'[i].at = "done" /\ sends'[i].out = "empty"
                 /\ UNCHANGED << sessionVars, status, placeholder, gate, editBox >>
            /\ ~SessionActive =>
                 /\ net' = net
                 /\ sends'[i].at = "done"]_vars

\* C8 witness: Direct send was triggered with a blank edit text while a
\* session was active
C8_Witness ==
  /\ SessionActive
  /\ editBox = << " " >>
  /\ \E i \in DOMAIN sends : sends[i].out = "empty"

\* C9 (as claimed, R being the trimmed response text): when the chat handler
\* finishes on a success reply with non-empty R, the edit field becomes R
\* and exactly one send-task request with R and the held id/token is issued
\* if a session is active, none otherwise; on a failure reply (non-success
\* status, malformed body, network error) nothing is forwarded.
C9_ChatForwardsSuccessOnly ==
  [][\A i \in DOMAIN chats :
       (chats[i].at \in {"log_resp", "log_err"} /\ chats'[i].at = "done") =>
         LET R == Trim(chats[i].reply)
             new == net' \ net
         IN  IF chats[i].at = "log_resp" /\ chats[i].http < 400 /\ R # << >>
             THEN /\ editBox' = R
                  /\ IF SessionActive
                     THEN \E r \in new :
                            /\ new = {r}
                            /\ r.ep = "send-task" /\ r.text = R
                            /\ r.sid = SESSION_ID /\ r.tok = SESSION_TOKEN
                     ELSE new = {}
             ELSE new = {}]_vars

\* the label the claim speaks of is absent or blank
NoLabel(t) == ~t.fig \/ (~t.hasSay /\ ~t.hasCap) \/ IsBlank(TileSay(t))

\* C10: a click on a tile without data-say and caption text, or with a
\* label that is blank, changes nothing: no request, no log call, and the
\* edit field, status and session state stay as they are.
C10_BlankTileNoop ==
  [][\A t \in Tiles :
       (Len(tiles') > Len(tiles) /\ NoLabel(t) /\ TileClick(t)) =>
         /\ net' = net /\ logs' = logs
         /\ tiles'[Len(tiles')].at = "done"
         /\ UNCHANGED << sessionVars, status, placeholder, gate, editBox,
                         starts, stops, sends, chats >>]_vars

\* C10 witness: a tile whose label is blank was clicked during a session
C10_Witness ==
  /\ SessionActive
  /\ \E i \in DOMAIN tiles : tiles[i].out = "noop"

-----------------------------------------------------------------------------
(* Claims about the recorder, checked under SpecRec *)

Recording == {r \in DOMAIN recs : recs[r].state = "recording"}

\* C5 (as claimed): under any interleaving of mic triggers at most one
\* recorder is recording at any time.
C5_AtMostOneRecording == Cardinality(Recording) <= 1

\* some step of recorder r's onstop handler can be taken
OnStopCanStep(r) ==
  ENABLED (OnStopBegin(r) \/ OnStopBlob(r) \/ OnStopUpload(r) \/ OnStopResponse(r)
             \/ OnStopResult(r) \/ OnStopCatch(r))

\* C6: an onstop handler that has begun is never stuck before its end, and
\* the step that ends it (after a reply with or without text, a rejected
\* upload or a thrown error) leaves the tracks of its stream stopped, the
\* recorder handle null and the mic button not recording; the stream of a
\* finished handler stays released.
C6_StopAlwaysReleasesMic ==
  /\ [](\A r \in DOMAIN recs :
          /\ recs[r].on = "done" => ~streams[recs[r].stream].live
          /\ (recs[r].pending = "stop" \/ recs[r].on \notin {"idle", "done"})
               => OnStopCanStep(r))
  /\ [][\A r \in DOMAIN recs :
          (recs[r].on # "done" /\ recs'[r].on = "done")
            => /\ ~streams'[recs[r].stream].live
               /\ mediaRecorder' = 0
               /\ micBtn' = FALSE]_vars

\* C6 witness: a recording was stopped and its upload rejected
C6_Witness ==
  \E r \in DOMAIN recs :
    /\ recs[r].on = "done" /\ recs[r].out = "error"
    /\ \E q \in net : q.by = <<"rec", r>>
    /\ ~streams[recs[r].stream].live

-----------------------------------------------------------------------------
(* C11: stopSession never throws and always ends with the status "stopped.",
   also when no connection is held and when the stop-session call fails: a
   stop invocation that is not finished can always take its next step, the
   step that finishes it sets the status "stopped.", closes the connection
   pc held and leaves pc null, and a failed call is in the log by then *)
StopCanStep(k) ==
  \/ ENABLED StopRequest(k)
  \/ ENABLED StopResponse(k)
  \/ ENABLED StopFinish(k)

StopAlwaysContinues ==
  \A k \in DOMAIN stops :
    /\ stops[k].at # "done" => StopCanStep(k)
    /\ stops[k].at = "done" =>
         \/ Log(<<"stop", k>>, "/api/stop-session response") \in logs
         \/ Log(<<"stop", k>>, "stop-session error") \in logs

StopEndsStopped ==
  [][\A k \in DOMAIN stops :
       (stops[k].at # "done" /\ stops'[k].at = "done")
         => /\ status' = "stopped."
            /\ pc' = 0
            /\ pc # 0 => conns'[pc].closed]_vars

C11_StopNeverThrows == []StopAlwaysContinues /\ StopEndsStopped

\* a stop whose stop-session call failed, finished with nothing held
C11_Witness ==
  \E k \in DOMAIN stops :
    /\ stops[k].at = "done"
    /\ Log(<<"stop", k>>, "stop-session error") \in logs
    /\ status = "stopped."
    /\ conns = << >>

-----------------------------------------------------------------------------
(* C12: the ICE-gathering wait never blocks indefinitely and is left exactly
   once: an invocation in the wait is either already released or has its
   1.5 s timer pending, a released one can issue the upload at once, and an
   event that comes after the invocation has left the wait (the timer firing
   after gathering completed, or gathering completing after the timer) moves
   no invocation and issues no request; no invocation uploads twice *)
HeygenStarts(i) == {q \in net : q.ep = "heygen-start" /\ q.by = <<"start", i>>}

IceWaitNeverBlocks ==
  \A i \in DOMAIN starts :
    /\ starts[i].at = "await_ice" =>
         /\ starts[i].res \/ starts[i].timer = "armed"
         /\ starts[i].res => ENABLED StartUpload(i)
         /\ starts[i].timer = "armed" => ENABLED IceTimeout(i)
    /\ Cardinality(HeygenStarts(i)) <= 1

\* the step is one of the two events of the wait
IceEvent ==
  \/ \E c \in DOMAIN conns : conns[c].ice = "gathering" /\ conns'[c].ice = "complete"
  \/ \E i \in DOMAIN starts : starts[i].timer = "armed" /\ starts'[i].timer = "fired"

IceWaitLeftOnce ==
  [][/\ IceEvent =>
          /\ net' = net /\ status' = status
          /\ \A i \in DOMAIN starts : starts'[i].at = starts[i].at
     /\ \A i \in DOMAIN starts :
          (starts[i].at = "await_ice" /\ starts'[i].at # "await_ice")
            => starts[i].res /\ status' = "starting on HeyGen"
     /\ \A i \in DOMAIN starts :
          (starts[i].at # "await_ice" /\ starts'[i].at = "await_ice")
            => starts[i].at = "await_setLocal"]_vars

C12_IceWaitBounded == []IceWaitNeverBlocks /\ IceWaitLeftOnce

\* both events have occurred for an invocation that uploaded once
C12_Witness ==
  \E i \in DOMAIN starts :
    /\ starts[i].at = "fetch_heygen"
    /\ starts[i].timer = "fired"
    /\ conns[starts[i].opc].ice = "complete"
    /\ Cardinality(HeygenStarts(i)) = 1

-----------------------------------------------------------------------------
(* C13: a failure of a request on the primary critical path (start-session
   and heygen-start of a start, send-task of a Direct send, the upload of a
   recording) is surfaced: the step that ends the handler after the failure
   leaves a status text for the failure, and a debug log line of the failure
   has been written *)
FailureStatuses ==
  {"init error (start-session)", "init error (webrtc)", "send error",
   "Voicechat error", "Transcription error"}

FailureLogged(by) ==
  \E l \in logs' : l.by = by /\ l.msg \in {"start-session failed", "webrtc/start error",
                                            "send-task error", "voicechat error"}

C13_FailuresSurfaced ==
  [][/\ \A i \in DOMAIN starts :
          (starts[i].at \in {"log_start_failed", "log_webrtc_err"} /\ starts'[i].at = "done")
            => status' \in FailureStatuses /\ FailureLogged(<<"start", i>>)
     /\ \A i \in DOMAIN sends :
          (sends[i].at = "fetch" /\ sends'[i].out = "rejected")
            => status' \in FailureStatuses /\ FailureLogged(<<"send", i>>)
     /\ \A r \in DOMAIN recs :
          (recs[r].on \in {"fetch", "log_err"} /\ recs'[r].out = "error")
            => status' \in FailureStatuses /\ FailureLogged(<<"rec", r>>)]_vars

-----------------------------------------------------------------------------
(* C14: after a failure the recorder is back in the not-recording state, so
   that the next mic trigger starts a new recording: whenever no mic handler
   is running, no recorder records and no stop is being handled, the handle
   mediaRecorder is null (a mic click then runs startRecording) and the
   button does not show a recording *)
RecorderQuiet ==
  /\ \A i \in DOMAIN mics : mics[i].at = "done"
  /\ \A r \in DOMAIN recs : /\ recs[r].state # "recording"
                             /\ recs[r].pending = "none"
                             /\ recs[r].on \in {"idle", "done"}

C14_RecorderReturnsToIdle == RecorderQuiet => (mediaRecorder = 0 /\ ~micBtn)

-----------------------------------------------------------------------------
(* C15: when the upload of a recording is answered, a non-empty text of the
   response is put into the edit field (as sent, or trimmed); an empty or
   missing text gives the "no text" status instead of the ready status and
   leaves the edit field as it was *)
C15_UploadTextOrNoText ==
  [][\A r \in DOMAIN recs :
       (recs[r].on = "log_resp" /\ recs'[r].on = "done")
         => IF recs[r].hasText /\ recs[r].text # << >>
            THEN editBox' \in {recs[r].text, Trim(recs[r].text)}
            ELSE /\ status' = "Voicechat returned no text."
                 /\ editBox' = editBox]_vars

-----------------------------------------------------------------------------
(* C16: nothing is retried automatically: one invocation of a handler calls
   an endpoint at most once (a tile click calls send-task at most twice, for
   the label and for the explanation), so one start trigger causes at most
   one start-session and at most one heygen-start call; and a request is only
   ever issued by an invocation that is still running, never after it has
   ended, failed or not *)
ReqsOf(by, ep) == {q \in net : q.by = by /\ q.ep = ep}

Running(by) ==
  CASE by[1] = "start" -> starts[by[2]].at # "done"
    [] by[1] = "stop"  -> stops[by[2]].at # "done"
    [] by[1] = "send"  -> sends[by[2]].at # "done"
    [] by[1] = "chat"  -> chats[by[2]].at # "done"
    [] by[1] = "tile"  -> tiles[by[2]].at # "done"
    [] by[1] = "rec"   -> recs[by[2]].on # "done"

OneCallPerInvocation ==
  \A q \in net :
    Cardinality(ReqsOf(q.by, q.ep))
      <= IF q.by[1] = "tile" /\ q.ep = "send-task" THEN 2 ELSE 1

OnlyRunningInvocationsCall ==
  [][\A q \in net' \ net : Running(q.by)]_vars

C16_NoAutomaticRetry == []OneCallPerInvocation /\ OnlyRunningInvocationsCall

\* a start whose heygen-start call failed has ended, with one call of each
\* endpoint, and a Direct send whose call was rejected has ended with one
C16_Witness ==
  /\ \E i \in DOMAIN starts :
       /\ starts[i].at = "done" /\ starts[i].out = "error"
       /\ Cardinality(ReqsOf(<<"start", i>>, "start-session")) = 1
       /\ Cardinality(ReqsOf(<<"start", i>>, "heygen-start")) = 1
  /\ \E i \in DOMAIN sends :
       /\ sends[i].out = "rejected"
       /\ Cardinality(ReqsOf(<<"send", i>>, "send-task")) = 1

-----------------------------------------------------------------------------
(* C17: during one start invocation the status takes the values requesting,
   applying offer, creating answer, waiting for media in exactly this order;
   the sequence ends in a ready status once media is live (a stream of the
   connection is attached to the video or audio element after the start
   succeeded), or in an error status if a step fails *)
StatusSteps ==
  << "requesting viewer params", "applying offer", "creating answer", "waiting for media" >>

StatusRank(st) == CHOOSE k \in 1 .. Len(StatusSteps) : StatusSteps[k] = st

\* how many of the four values the invocation has set when it is at `at`
RankAt(at) ==
  CASE at = "log_pressed" -> 0
    [] at \in {"fetch_start", "log_start_resp", "log_start_failed"} -> 1
    [] at = "await_setRemote" -> 2
    [] OTHER -> 3

StatusInOrder ==
  [][\A i \in DOMAIN starts :
       (/\ starts'[i].at # starts[i].at
        /\ status' # status
        /\ \E k \in 1 .. Len(StatusSteps) : StatusSteps[k] = status')
         => StatusRank(status') = RankAt(starts[i].at) + 1]_vars

MediaLive == videoEl.src # 0 \/ audioEl.src # 0

StatusEndsReadyOrError ==
  \A i \in DOMAIN starts :
    starts[i].at = "done" =>
      IF starts[i].out = "ok"
      THEN MediaLive => status = "Ready."
      ELSE status \in {"init error (start-session)", "init error (webrtc)"}

C17_StatusSequence == StatusInOrder /\ []StatusEndsReadyOrError

-----------------------------------------------------------------------------
(* C18: a tile click with the non-empty label L issues the explain request
   with the name L, with or without a session, preceded by a send-task call
   with the text L exactly when a session is active; a send-task call with
   the explanation is issued only after that, and only if the explain
   endpoint answered with a success status and a non-empty reply while a
   session is active, the reply then being shown in the edit field; the
   handler issues no other request *)
TileReqs(i) == {q \in net' \ net : q.by = <<"tile", i>>}

TileAsks(i) == tiles[i].at = "log_pressed" /\ tiles'[i].at = "fetch"

TileEnds(i) == tiles[i].at = "log_resp" /\ tiles'[i].at = "done"

C18_TileRequestOrder ==
  [][\A i \in DOMAIN tiles :
       /\ TileAsks(i) =>
            \E e \in TileReqs(i) :
              /\ e.ep = "perfume-explain" /\ e.text = tiles[i].nm
              /\ IF SessionActive
                 THEN \E t \in TileReqs(i) :
                        /\ t.ep = "send-task" /\ t.text = tiles[i].nm
                        /\ t.sid = SESSION_ID /\ t.tok = SESSION_TOKEN
                        /\ t.n < e.n
                        /\ TileReqs(i) = {t, e}
                 ELSE TileReqs(i) = {e}
       /\ TileEnds(i) =>
            LET reply == Trim(tiles[i].reply) IN
            IF tiles[i].http < 400 /\ reply # << >> /\ SessionActive
            THEN /\ editBox' = reply
                 /\ \E t \in TileReqs(i) :
                      /\ TileReqs(i) = {t}
                      /\ t.ep = "send-task" /\ t.text = reply
                      /\ \A q \in net : q.by = <<"tile", i>> => q.n < t.n
                      /\ \E e \in net : e.by = <<"tile", i>> /\ e.ep = "perfume-explain"
            ELSE TileReqs(i) = {}
       /\ TileReqs(i) # {} => TileAsks(i) \/ TileEnds(i)]_vars

\* a tile click with a session has issued, in this order, send-task with
\* the label, the explain request and send-task with the explanation
C18_Witness ==
  \E i \in DOMAIN tiles : \E t1, e, t2 \in net :
    /\ t1.by = <<"tile", i>> /\ e.by = <<"tile", i>> /\ t2.by = <<"tile", i>>
    /\ t1.ep = "send-task" /\ t1.n = 1
    /\ e.ep = "perfume-explain" /\ e.n = 2 /\ e.text = t1.text
    /\ t2.ep = "send-task" /\ t2.n = 3
    /\ editBox = t2.text

-----------------------------------------------------------------------------
(* C19: inbound video is attached muted; for inbound audio an unmuted
   playback attempt is made; the enable-audio gate is shown whenever such an
   attempt is rejected, and it is hidden only after an unmuted playback
   attempt (scheduled by the audio track or started by the gate's button)
   has succeeded *)
Attempted == {a \in DOMAIN audios : audios[a].at \in {"play", "done"}}

Succeeded == {a \in DOMAIN audios : audios[a].at = "done" /\ audios[a].ok}

MediaAttachedRight ==
  /\ videoEl.src # 0 => videoEl.muted
  /\ Attempted # {} => ~audioEl.muted
  /\ audioEl.src # 0 => \E a \in DOMAIN audios : audios[a].by = "track"
  /\ gate = "none" => Succeeded # {}

GateFollowsAttempts ==
  [][/\ audioEl'.src # audioEl.src =>
          /\ Len(audios') = Len(audios) + 1
          /\ audios'[Len(audios')].at = "timer"
     /\ \A a \in DOMAIN audios :
          (audios[a].at = "timer" /\ audios'[a].at # "timer")
            => audios'[a].at = "play" /\ ~audioEl'.muted
     /\ \A a \in DOMAIN audios :
          (audios[a].at = "play" /\ audios'[a].at = "done")
            => gate' = IF audios'[a].ok THEN "none" ELSE "flex"
     /\ (gate' = "none" /\ gate # "none")
          => \E a \in DOMAIN audios :
               audios[a].at = "play" /\ audios'[a].at = "done" /\ audios'[a].ok]_vars

C19_AudioGate == []MediaAttachedRight /\ GateFollowsAttempts

\* the automatic attempt was rejected, the attempt of the gate's button
\* succeeded and hid the gate; the video plays muted
C19_Witness ==
  /\ videoEl.src # 0 /\ videoEl.muted
  /\ gate = "none"
  /\ \E a, b \in DOMAIN audios :
       /\ audios[a].by = "track" /\ audios[a].at = "done" /\ ~audios[a].ok
       /\ audios[b].by = "click" /\ audios[b].at = "done" /\ audios[b].ok

-----------------------------------------------------------------------------
(* C20: the audio uploaded when a recording stops is the concatenation, in
   arrival order, of exactly the non-empty fragments that recording
   delivered: none dropped, no empty one, none of another recording *)
OwnFragments(r) == [j \in 1 .. Len(recs[r].got) |-> << r, recs[r].got[j] >>]

C20_UploadIsOwnFragments ==
  [][\A r \in DOMAIN recs :
       (recs[r].on = "log_sending" /\ recs'[r].on = "fetch")
         => \E q \in net' \ net : q.by = <<"rec", r>> /\ q.blob = OwnFragments(r)]_vars

-----------------------------------------------------------------------------
(* C21: when a stop was invoked and has completed while a start was still in
   flight, and no start was triggered after it, then once every start and
   stop has finished no connection is open and no session id or token is
   held *)
AllFinished ==
  /\ \A i \in DOMAIN starts : starts[i].at = "done"
  /\ \A k \in DOMAIN stops : stops[k].at = "done"

C21_StopDuringStartLeavesNothing ==
  (/\ AllFinished
   /\ \E k \in DOMAIN stops : stops[k].during # {} /\ stops[k].seen = Len(starts))
    => /\ OpenConns = {}
       /\ ~Truthy(SESSION_ID) /\ ~Truthy(SESSION_TOKEN)

-----------------------------------------------------------------------------
(* C22: startSession negotiates only with a session id and a session token:
   the step that creates a connection has just stored a present (truthy) id
   and token from the response, and no heygen-start request carries an
   absent id or token *)
HeygenStartHasSession ==
  \A q \in net : q.ep = "heygen-start" => Truthy(q.sid) /\ Truthy(q.tok)

ConnectionNeedsSession ==
  [][Len(conns') > Len(conns) => Truthy(SESSION_ID') /\ Truthy(SESSION_TOKEN')]_vars

C22_NegotiateOnlyWithSession == ConnectionNeedsSession /\ []HeygenStartHasSession

-----------------------------------------------------------------------------
(* C23: every microphone stream that startRecording acquired is released,
   also when the audio graph, the recorder's construction or its start
   failed after access was granted: whenever no mic handler is running, no
   recorder records and no stop is being handled (so that no step is left
   that stops tracks), no acquired stream is live *)
LiveStreams == {st \in DOMAIN streams : streams[st].live}

C23_StreamsReleased == RecorderQuiet => LiveStreams = {}

-----------------------------------------------------------------------------
(* C24: each recording span results in at most one upload, and a mic trigger
   that arrives after the stop of a recorder was requested and before the
   cleanup of its stop handler has run neither starts a new recording (no
   startRecording begins) nor acts on that recorder again, and issues no
   request; during that time the handle is set, so that the click handler
   takes its stop branch *)
InStopWindow(r) == recs[r].pending # "none" \/ recs[r].on \notin {"idle", "done"}

Uploads(r) == {q \in net : q.by = <<"rec", r>>}

OneUploadPerRecording == \A r \in DOMAIN recs : Cardinality(Uploads(r)) <= 1

ClickInStopWindowIsNoop ==
  [][\A r \in DOMAIN recs :
       (micClicks' # micClicks /\ InStopWindow(r))
         => /\ mics' = mics
            /\ recs'[r] = recs[r]
            /\ net' = net]_vars

\* the click handler starts a recording exactly when the handle is null
ClickWouldStop == \A r \in DOMAIN recs : InStopWindow(r) => mediaRecorder # 0

C24_OneUploadPerRecording ==
  ClickInStopWindowIsNoop /\ []OneUploadPerRecording /\ []ClickWouldStop

=============================================================================
